---- MODULE Spec2Model ----
(***************************************************************************)
(* The session/trade state container of the trade journal (src/src/App.tsx) *)
(* as a state machine: one action per event handler of the App component.  *)
(* Handlers run to completion on the single UI thread; the only deferred   *)
(* callback is FileReader.onload, which runs with the `state` its render   *)
(* closed over when the file was picked.                                   *)
(***************************************************************************)
EXTENDS Integers, Sequences, FiniteSets, Bags, TLC

\* ------------------------------------------------------------------ bounds
MaxSessions == 2    \* sessions a handler may grow state.sessions to
MaxTrades == 2      \* trades a handler may grow one session's trades to
MaxPending == 1     \* FileReaders whose onload has not fired yet

SessionIds == {"s1", "s2"}
TradeIds == {"t1", "t2"}
Notes == {"a", "b"}

\* ------------------------------------------------------- JavaScript values
Null == "null"
Undefined == "undefined"
\* !v in JavaScript, for the values an id can take here
Falsy(v) == v \in {Null, Undefined, ""}

\* Trade (src/types is not part of the listing): an id and editable content.
Trade == [id : TradeIds, note : Notes]
\* selectedTrade === null
NullTrade == [id |-> Null, note |-> Null]

EmptyState == [sessions |-> <<>>, activeSessionId |-> Null]

\* ------------------------------------------------------------ backup files
\* The text of a file, by what JSON.parse makes of it:
\*   wellFormed   JSON.parse returns (FALSE: it throws SyntaxError)
\*   top          the parsed value is null, an object, or another value (42, [])
\*   sessionsTag  the `sessions` property: missing, null, a string, an array
\*   activeTag    the `activeSessionId` property: missing, null, a string
File(wf, top, st, ss, at, a) ==
  [wellFormed |-> wf, top |-> top, sessionsTag |-> st, sessions |-> ss,
   activeTag |-> at, activeSessionId |-> a]

NoFile == File(FALSE, "none", "missing", <<>>, "missing", "")

T1a == [id |-> "t1", note |-> "a"]

\* not JSON
FileMalformed == File(FALSE, "other", "missing", <<>>, "missing", "")
\* null
FileNull == File(TRUE, "null", "missing", <<>>, "missing", "")
\* {"activeSessionId": null}
FileNoSessions == File(TRUE, "object", "missing", <<>>, "null", "")
\* {"sessions": "s1", "activeSessionId": "s1"}
FileSessionsString == File(TRUE, "object", "string", <<>>, "string", "s1")
\* {"sessions": [], "activeSessionId": null}
FileEmptyNull == File(TRUE, "object", "array", <<>>, "null", "")
\* {"sessions": []}
FileEmpty == File(TRUE, "object", "array", <<>>, "missing", "")
\* {"sessions": [], "activeSessionId": "s1"}
FileDangling == File(TRUE, "object", "array", <<>>, "string", "s1")
\* {"sessions": [{"id":"s1","trades":[t1]}, {"id":"s1","trades":[]}], "activeSessionId": "s1"}
FileDuplicate ==
  File(TRUE, "object", "array",
       << [id |-> "s1", trades |-> <<T1a>>], [id |-> "s1", trades |-> <<>>] >>,
       "string", "s1")
\* {"sessions": [{"id":"s2","trades":[t1]}], "activeSessionId": "s2"}
FileOne ==
  File(TRUE, "object", "array", << [id |-> "s2", trades |-> <<T1a>>] >>, "string", "s2")

Files ==
  {FileMalformed, FileNull, FileNoSessions, FileSessionsString,
   FileEmptyNull, FileEmpty, FileDangling, FileDuplicate, FileOne}

\* a stringify that leaves a null property out, as it does an undefined one
JSONstringifyDropsNull(st) ==
  File(TRUE, "object", "array", st.sessions,
       IF st.activeSessionId \in {Undefined, Null} THEN "missing" ELSE "string",
       IF st.activeSessionId \in {Undefined, Null} THEN "" ELSE st.activeSessionId)

\* JSON.stringify(state, null, 2): an undefined property is left out, null is kept
JSONstringify(st) ==
  File(TRUE, "object", "array", st.sessions,
       IF st.activeSessionId = Undefined THEN "missing"
       ELSE IF st.activeSessionId = Null THEN "null" ELSE "string",
       IF st.activeSessionId \in {Undefined, Null} THEN "" ELSE st.activeSessionId)

\* a parse that returns for every text
JSONparseNeverThrows(f) == FALSE

\* JSON.parse(text) throws
JSONparseThrows(f) == ~f.wellFormed

\* importedData.sessions throws TypeError (property read on null)
ReadSessionsThrows(f) == f.top = "null"

\* !importedData.sessions || !Array.isArray(importedData.sessions)
InvalidStructure(f) == f.top # "object" \/ f.sessionsTag # "array"

\* importedData, read as a state: a missing property reads as undefined
importedData(f) ==
  [sessions |-> f.sessions,
   activeSessionId |->
     IF f.activeTag = "missing" THEN Undefined
     ELSE IF f.activeTag = "null" THEN Null ELSE f.activeSessionId]

\* ------------------------------------------------------------------- state
VARIABLES
  state,           \* useState(loadState()): [sessions, activeSessionId]
  selectedTrade,   \* useState<Trade | null>(null)
  isQuickAddOpen,  \* useState(false)
  saved,           \* the value last passed to saveState
  readers,         \* the FileReaders reading, a bag: the file and what onload closed over
  exported,        \* the backup last downloaded, and the state it was made from
  ev               \* what the last handler showed (alert, window.confirm) and, for
                   \* onload, handleDeleteSession and handleQuickAddTrade, its argument

vars == <<state, selectedTrade, isQuickAddOpen, saved, readers, exported, ev>>

Event(op, sid, trade, file, alert, shown, confirmed) ==
  [op |-> op, sid |-> sid, trade |-> trade, file |-> file, alert |-> alert,
   confirmShown |-> shown, confirmed |-> confirmed,
   wasActive |-> op = "deleteSession" /\ sid = state.activeSessionId]

\* a handler that shows nothing and is told apart by its definition
Quiet == Event("handler", "", NullTrade, NoFile, "", FALSE, FALSE)

\* loadState() of src/storage: the stored state, or the empty state on first use
loadState ==
  {EmptyState,
   [sessions |-> << [id |-> "s1", trades |-> <<T1a>>] >>, activeSessionId |-> "s1"]}

\* const activeSession = state.sessions.find(s => s.id === state.activeSessionId),
\* as the index of the first match (0: undefined)
activeSession(st) ==
  LET hits == {i \in 1..Len(st.sessions) : st.sessions[i].id = st.activeSessionId}
  IN  IF hits = {} THEN 0 ELSE CHOOSE i \in hits : \A j \in hits : i <= j

\* a state change whose render does not run the save effect
setStateWithoutEffect(next) ==
  /\ state' = next
  /\ UNCHANGED saved

\* setState(next): the render that follows runs the effect saveState(state)
setState(next) ==
  /\ state' = next
  /\ saved' = next

Init ==
  /\ state \in loadState
  /\ selectedTrade = NullTrade
  /\ isQuickAddOpen = FALSE
  /\ saved = state
  /\ readers = EmptyBag
  /\ exported = [file |-> NoFile, from |-> EmptyState]
  /\ ev = Event("init", "", NullTrade, NoFile, "", FALSE, FALSE)

\* ------------------------------------------------------- what the UI offers
\* ids the id generators of SessionSelector / createSession may produce next
FreshSessionIds == SessionIds \ {state.sessions[i].id : i \in 1..Len(state.sessions)}

TradeIdsOf(st) ==
  UNION {{st.sessions[i].trades[j].id : j \in 1..Len(st.sessions[i].trades)} :
         i \in 1..Len(st.sessions)}

\* ids the id generator of TradeForm / QuickAddModal may produce next
FreshTradeIds == TradeIds \ (TradeIdsOf(state) \cup {selectedTrade.id})

\* the trades TradeList renders: activeSession.trades
ListedTrades ==
  IF activeSession(state) = 0 THEN {}
  ELSE LET ts == state.sessions[activeSession(state)].trades
       IN  {ts[j] : j \in 1..Len(ts)}

\* <TradeReport> is rendered
ReportShown == selectedTrade # NullTrade
\* <TradeForm> and <TradeList> are rendered
SessionShown == ~ReportShown /\ activeSession(state) # 0
\* the empty state with the New Session button is rendered
WelcomeShown == ~ReportShown /\ activeSession(state) = 0

\* room left in the sessions a new trade goes to, within the bound
RoomForTrade ==
  \A i \in 1..Len(state.sessions) :
    state.sessions[i].id = state.activeSessionId
      => Len(state.sessions[i].trades) < MaxTrades

\* the trades Update and Delete can be issued for: the one in the report, or a listed one
Editable == IF ReportShown THEN {selectedTrade} ELSE ListedTrades

\* ---------------------------------------------------------------- handlers
createSessionInto(session) ==
  setState([sessions |-> Append(state.sessions, session),
            activeSessionId |-> session.id])

handleCreateSession ==
  \E id \in FreshSessionIds :
    /\ Len(state.sessions) < MaxSessions
    /\ createSessionInto([id |-> id, trades |-> <<>>])
    /\ ev' = Quiet
    /\ UNCHANGED <<selectedTrade, isQuickAddOpen, readers, exported>>

handleCreateNewSession ==
  \E id \in FreshSessionIds :
    /\ WelcomeShown
    /\ Len(state.sessions) < MaxSessions
    /\ createSessionInto([id |-> id, trades |-> <<>>])
    /\ ev' = Quiet
    /\ UNCHANGED <<selectedTrade, isQuickAddOpen, readers, exported>>

handleSelectSession ==
  \E i \in 1..Len(state.sessions) :
    LET sessionId == state.sessions[i].id IN
    /\ setState([state EXCEPT !.activeSessionId = sessionId])
    /\ selectedTrade' = NullTrade
    /\ ev' = Quiet
    /\ UNCHANGED <<isQuickAddOpen, readers, exported>>

\* a delete that keeps activeSessionId as it was
deleteSessionKeepsActive(st, sessionId) ==
  [sessions |-> SelectSeq(st.sessions, LAMBDA s : s.id # sessionId),
   activeSessionId |-> st.activeSessionId]

\* the state handleDeleteSession(sessionId) sets
deleteSession(st, sessionId) ==
  LET updatedSessions == SelectSeq(st.sessions, LAMBDA s : s.id # sessionId)
      newActiveId ==
        IF sessionId = st.activeSessionId
        THEN (IF Len(updatedSessions) > 0 THEN updatedSessions[1].id ELSE Null)
        ELSE st.activeSessionId
  IN  [sessions |-> updatedSessions, activeSessionId |-> newActiveId]

handleDeleteSession ==
  \E i \in 1..Len(state.sessions) :
    LET sessionId == state.sessions[i].id IN
    /\ setState(deleteSession(state, sessionId))
    /\ selectedTrade' = NullTrade
    /\ ev' = Event("deleteSession", sessionId, NullTrade, NoFile, "", FALSE, FALSE)
    /\ UNCHANGED <<isQuickAddOpen, readers, exported>>

\* the sessions after handleAddTrade's map
addTrade(st, trade) ==
  LET a == st.sessions[activeSession(st)] IN
  [i \in 1..Len(st.sessions) |->
     LET s == st.sessions[i] IN
     IF s.id = a.id THEN [s EXCEPT !.trades = Append(s.trades, trade)] ELSE s]

\* the body of handleAddTrade(trade)
AddTrade(trade) ==
  IF activeSession(state) = 0
  THEN UNCHANGED <<state, saved, selectedTrade>>
  ELSE /\ setState([state EXCEPT !.sessions = addTrade(state, trade)])
       /\ selectedTrade' = trade

\* handleAddTrade(trade), from <TradeForm>
handleAddTradeOf(trade) ==
  /\ SessionShown
  /\ trade.id \in FreshTradeIds
  /\ RoomForTrade
  /\ AddTrade(trade)
  /\ ev' = Quiet
  /\ UNCHANGED <<isQuickAddOpen, readers, exported>>

handleAddTrade == \E trade \in Trade : handleAddTradeOf(trade)

handleQuickAddTrade ==
  \E trade \in Trade :
    /\ isQuickAddOpen
    /\ trade.id \in FreshTradeIds
    /\ RoomForTrade
    /\ IF Falsy(state.activeSessionId)
       THEN /\ ev' = Event("quickAddTrade", "", trade, NoFile, "select-first", FALSE, FALSE)
            /\ UNCHANGED <<state, saved, selectedTrade>>
       ELSE /\ AddTrade(trade)
            /\ ev' = Event("quickAddTrade", "", trade, NoFile, "", FALSE, FALSE)
    /\ UNCHANGED <<isQuickAddOpen, readers, exported>>

\* the sessions after handleUpdateTrade's map
updateTrade(st, updatedTrade) ==
  LET a == st.sessions[activeSession(st)] IN
  [i \in 1..Len(st.sessions) |->
     LET s == st.sessions[i] IN
     IF s.id = a.id
     THEN [s EXCEPT !.trades =
             [j \in 1..Len(s.trades) |->
                IF s.trades[j].id = updatedTrade.id THEN updatedTrade ELSE s.trades[j]]]
     ELSE s]

\* handleUpdateTrade(updatedTrade), from <TradeReport> or <TradeList>
handleUpdateTradeOf(updatedTrade) ==
  /\ updatedTrade.id \in {t.id : t \in Editable}
  /\ IF activeSession(state) = 0
     THEN UNCHANGED <<state, saved, selectedTrade>>
     ELSE /\ setState([state EXCEPT !.sessions = updateTrade(state, updatedTrade)])
          /\ selectedTrade' = updatedTrade
  /\ ev' = Quiet
  /\ UNCHANGED <<isQuickAddOpen, readers, exported>>

handleUpdateTrade == \E updatedTrade \in Trade : handleUpdateTradeOf(updatedTrade)

\* the sessions after handleDeleteTrade's map
deleteTrade(st, tradeId) ==
  LET a == st.sessions[activeSession(st)] IN
  [i \in 1..Len(st.sessions) |->
     LET s == st.sessions[i] IN
     IF s.id = a.id
     THEN [s EXCEPT !.trades = SelectSeq(s.trades, LAMBDA t : t.id # tradeId)]
     ELSE s]

\* handleDeleteTrade(tradeId), from <TradeReport> or <TradeList>
handleDeleteTradeOf(tradeId) ==
  /\ tradeId \in {t.id : t \in Editable}
  /\ IF activeSession(state) = 0
     THEN UNCHANGED <<state, saved, selectedTrade>>
     ELSE /\ setState([state EXCEPT !.sessions = deleteTrade(state, tradeId)])
          /\ selectedTrade' = NullTrade
  /\ ev' = Quiet
  /\ UNCHANGED <<isQuickAddOpen, readers, exported>>

handleDeleteTrade == \E tradeId \in TradeIds : handleDeleteTradeOf(tradeId)

\* TradeList onSelectTrade={setSelectedTrade}
SelectTrade ==
  \E t \in ListedTrades :
    /\ ~ReportShown
    /\ selectedTrade' = t
    /\ ev' = Quiet
    /\ UNCHANGED <<state, saved, isQuickAddOpen, readers, exported>>

\* TradeReport onBack={() => setSelectedTrade(null)}
Back ==
  /\ ReportShown
  /\ selectedTrade' = NullTrade
  /\ ev' = Quiet
  /\ UNCHANGED <<state, saved, isQuickAddOpen, readers, exported>>

\* the floating action button, rendered when state.activeSessionId is truthy
OpenQuickAdd ==
  /\ ~Falsy(state.activeSessionId)
  /\ ~isQuickAddOpen
  /\ isQuickAddOpen' = TRUE
  /\ ev' = Quiet
  /\ UNCHANGED <<state, saved, selectedTrade, readers, exported>>

\* QuickAddModal onClose
CloseQuickAdd ==
  /\ isQuickAddOpen
  /\ isQuickAddOpen' = FALSE
  /\ ev' = Quiet
  /\ UNCHANGED <<state, saved, selectedTrade, readers, exported>>

\* handleExportData: the download of JSON.stringify(state). The picker offers the
\* texts of Files, so a download is followed when its text is one of them.
handleExportData ==
  LET dataStr == JSONstringify(state) IN
  /\ dataStr \in Files
  /\ exported' = [file |-> dataStr, from |-> state]
  /\ ev' = Quiet
  /\ UNCHANGED <<state, saved, selectedTrade, isQuickAddOpen, readers>>

\* handleImportData: reader.onload is set in a render whose `state` it keeps;
\* of that state the callback reads state.sessions.length > 0 only
handleImportData ==
  \E file \in Files :
    /\ BagCardinality(readers) < MaxPending
    /\ readers' = readers (+) SetToBag({[file |-> file,
                                         hadSessions |-> Len(state.sessions) > 0]})
    /\ ev' = Quiet
    /\ UNCHANGED <<state, saved, selectedTrade, isQuickAddOpen, exported>>

\* window.confirm is shown
ConfirmAsked(r) == r.hadSessions

\* reader.onload of a pending reader r; `answer` is the user's reply to confirm
onload ==
  \E r \in BagToSet(readers), answer \in BOOLEAN :
    LET f == r.file IN
    /\ readers' = readers (-) SetToBag({r})
    /\ UNCHANGED <<selectedTrade, isQuickAddOpen, exported>>
    /\ IF JSONparseThrows(f) \/ ReadSessionsThrows(f)
       THEN /\ ev' = Event("onload", "", NullTrade, f, "failed", FALSE, FALSE)
            /\ UNCHANGED <<state, saved>>
       ELSE IF InvalidStructure(f)
       THEN /\ ev' = Event("onload", "", NullTrade, f, "invalid", FALSE, FALSE)
            /\ UNCHANGED <<state, saved>>
       ELSE IF ConfirmAsked(r) /\ ~answer
       THEN /\ ev' = Event("onload", "", NullTrade, f, "", TRUE, FALSE)
            /\ UNCHANGED <<state, saved>>
       ELSE /\ setState(importedData(f))
            /\ ev' = Event("onload", "", NullTrade, f, "success", ConfirmAsked(r),
                           ConfirmAsked(r) /\ answer)

Next ==
  \/ handleCreateSession
  \/ handleCreateNewSession
  \/ handleSelectSession
  \/ handleDeleteSession
  \/ handleAddTrade
  \/ handleQuickAddTrade
  \/ handleUpdateTrade
  \/ handleDeleteTrade
  \/ SelectTrade
  \/ Back
  \/ OpenQuickAdd
  \/ CloseQuickAdd
  \/ handleImportData
  \/ onload

\* handleExportData writes nothing of the App; Spec leaves the download untracked
Spec == Init /\ [][Next]_vars

\* the same program with the downloaded backup tracked
NextBackup ==
  \/ handleCreateSession
  \/ handleCreateNewSession
  \/ handleSelectSession
  \/ handleDeleteSession
  \/ handleAddTrade
  \/ handleQuickAddTrade
  \/ handleUpdateTrade
  \/ handleDeleteTrade
  \/ SelectTrade
  \/ Back
  \/ OpenQuickAdd
  \/ CloseQuickAdd
  \/ handleImportData
  \/ onload
  \/ handleExportData

SpecBackup == Init /\ [][NextBackup]_vars

\* ------------------------------------------------------------------ claims
\* words of the claims, stated apart from the handlers
HasSession(st, id) == \E i \in 1..Len(st.sessions) : st.sessions[i].id = id

SessionsIsArray(f) == f.top = "object" /\ f.sessionsTag = "array"

RECURSIVE WithoutId(_, _)
WithoutId(seq, id) ==
  IF seq = <<>> THEN <<>>
  ELSE IF Head(seq).id = id THEN WithoutId(Tail(seq), id)
       ELSE <<Head(seq)>> \o WithoutId(Tail(seq), id)

RECURSIVE WithReplaced(_, _)
WithReplaced(seq, t) ==
  IF seq = <<>> THEN <<>>
  ELSE <<IF Head(seq).id = t.id THEN t ELSE Head(seq)>> \o WithReplaced(Tail(seq), t)

\* state `after` is state `before` with only session a changed, to trades ts
OnlySessionChanged(before, after, a, ts) ==
  /\ after.activeSessionId = before.activeSessionId
  /\ Len(after.sessions) = Len(before.sessions)
  /\ \A i \in 1..Len(before.sessions) :
       IF i = a
       THEN after.sessions[i] = [before.sessions[i] EXCEPT !.trades = ts]
       ELSE after.sessions[i] = before.sessions[i]

\* C1: an onload that replaces a state holding at least one session was preceded by
\* the confirmation dialog of this import, accepted; a declined dialog leaves
\* sessions and activeSessionId as they were.
ImportConfirmedBeforeOverwrite ==
  [][ev'.op = "onload" =>
       /\ (ev'.alert = "success" /\ Len(state.sessions) > 0)
            => (ev'.confirmShown /\ ev'.confirmed)
       /\ (ev'.confirmShown /\ ~ev'.confirmed) => state' = state]_vars

\* C2: a parsed backup whose `sessions` is missing or no array leaves the state
\* unchanged and shows the 'Invalid backup file format' alert, never the success
\* alert; the state is replaced only by data whose `sessions` is an array.
ImportGuardedByStructuralCheck ==
  [][ev'.op = "onload" =>
       /\ (ev'.file.wellFormed /\ ~SessionsIsArray(ev'.file))
            => (state' = state /\ ev'.alert = "invalid")
       /\ state' # state => SessionsIsArray(ev'.file)]_vars

\* C3: a file whose text fails to parse shows the 'Failed to import data' alert and
\* nothing else: no dialog, and sessions, activeSessionId, the selected trade, the
\* saved value and the modal are as if the import had not been attempted.
MalformedFileOnlyAlerts ==
  [][(ev'.op = "onload" /\ ~ev'.file.wellFormed) =>
       /\ ev'.alert = "failed"
       /\ ~ev'.confirmShown
       /\ UNCHANGED <<state, selectedTrade, saved, isQuickAddOpen>>]_vars

MalformedFileImported ==
  /\ ev.op = "onload"
  /\ ev.file = FileMalformed
  /\ ev.alert = "failed"
  /\ state.sessions # <<>>
  /\ selectedTrade # NullTrade

\* the backup text of state S passes import's checks and reads back as S
BackupReadsBack(S) ==
  LET f == JSONstringify(S) IN
  /\ f.wellFormed
  /\ f.top = "object"
  /\ SessionsIsArray(f)
  /\ importedData(f).sessions = S.sessions
  /\ importedData(f).activeSessionId = S.activeSessionId

StateIsSaved ==
  /\ saved = state
  /\ ev.op = "init" => (state \in loadState /\ selectedTrade = NullTrade)

\* a backup replaced the state, and what was saved is what was imported
ChangeSaved ==
  /\ ev.op = "onload"
  /\ ev.alert = "success"
  /\ ev.confirmed
  /\ saved = importedData(ev.file)
  /\ Len(saved.sessions) = 2

\* C6: add, update and delete of a trade change the trades of the active session
\* only (append one trade; replace the trades with the id, keeping number and
\* order; remove the trades with the id), and change nothing when no session
\* matches activeSessionId.
TradeMutationsTouchActiveSessionOnly ==
  [][LET a == activeSession(state)
         ts == state.sessions[a].trades
     IN  /\ \A trade \in Trade :
              handleAddTradeOf(trade) =>
                IF a = 0 THEN state' = state
                ELSE OnlySessionChanged(state, state', a, Append(ts, trade))
         /\ \A updatedTrade \in Trade :
              handleUpdateTradeOf(updatedTrade) =>
                IF a = 0 THEN state' = state
                ELSE OnlySessionChanged(state, state', a, WithReplaced(ts, updatedTrade))
         /\ \A tradeId \in TradeIds :
              handleDeleteTradeOf(tradeId) =>
                IF a = 0 THEN state' = state
                ELSE OnlySessionChanged(state, state', a, WithoutId(ts, tradeId))]_vars

ActiveSessionIdIsNullOrPresent ==
  Falsy(state.activeSessionId) \/ HasSession(state, state.activeSessionId)

\* C9: a selected trade is a trade of the active session.
SelectedTradeIsInActiveSession ==
  selectedTrade # NullTrade =>
    /\ activeSession(state) # 0
    /\ selectedTrade.id \in
         {t.id : t \in ListedTrades}

\* C10: handleQuickAddTrade appends the trade to the active session's trades and
\* selects it, or shows the 'Please select or create a session first' alert and
\* changes nothing.
QuickAddNeverDropped ==
  [][ev'.op = "quickAddTrade" =>
       LET a == activeSession(state) IN
       \/ /\ a # 0
          /\ state'.sessions[a].trades = Append(state.sessions[a].trades, ev'.trade)
          /\ selectedTrade' = ev'.trade
       \/ /\ ev'.alert = "select-first"
          /\ UNCHANGED <<state, selectedTrade>>]_vars

====
